---- MODULE Spec2Model ----
(***************************************************************************)
(* Model of the observability example: the tracer bootstrap                *)
(* (telemetry.rs: init_tracer, shutdown) and the instrumented service call *)
(* (user_service.rs: UserService::get_user_by_id).                         *)
(*                                                                         *)
(* get_user_by_id is an async fn with one suspension point, the await of   *)
(* fetch_user_from_db.  A call is therefore two atomic steps: CallStart    *)
(* (lines 36-44, up to the await) and Resume (lines 44-58, from the await  *)
(* to the return).  Between the two, other tasks run, the bootstrap may be *)
(* (re)installed or shut down, and the executor may drop the future        *)
(* (Cancel), which drops the local `span`.                                 *)
(*                                                                         *)
(* A span is modelled by what the call does to its handle: the calls made  *)
(* on it, the attributes, events and status they set, and how often it was *)
(* ended.  The pipeline that produced it (0 = the no-op provider) decides  *)
(* whether its end hands it to an exporter.  The tracing span that the     *)
(* #[instrument] attribute opens is managed by the macro and is not part   *)
(* of the hand-written span protocol modelled here.                        *)
(*                                                                         *)
(* The simulated query of the source only ever succeeds; the Err arm of    *)
(* get_user_by_id is driven here by a query fault chosen at Resume.        *)
(***************************************************************************)
EXTENDS Integers, Sequences, FiniteSets, TLC

\* ---------------------------------------------------------------- bounds
NumTasks == 2
MaxInit == 2

Tasks == 1..NumTasks
SpanIds == 1..NumTasks
UserIds == {"123", "456"}
Messages == {"not found", "timeout"}
NoFault == "none"
Faults == {NoFault} \cup Messages

\* ---------------------------------------------------------------- data
User(id) == [id |-> id, name |-> "John Doe", email |-> "john@example.com"]
NoUser == [id |-> "", name |-> "", email |-> ""]
ServiceError(m) == [message |-> m]

Ok(u) == [kind |-> "Ok", user |-> u, err |-> ServiceError("")]
Err(e) == [kind |-> "Err", user |-> NoUser, err |-> e]
NoResult == [kind |-> "None", user |-> NoUser, err |-> ServiceError("")]

StatusUnset == [code |-> "Unset", description |-> ""]
StatusOk == [code |-> "Ok", description |-> ""]
StatusError(d) == [code |-> "Error", description |-> d]

KeyValue(k, v) == <<k, v>>

NoSpan == [owner |-> 0, pipeline |-> 0, phase |-> "Uninitialized", epoch |-> 0,
           attrs |-> {}, events |-> <<>>, status |-> StatusUnset,
           ended |-> FALSE, endCount |-> 0, dropped |-> FALSE, calls |-> <<>>]

VARIABLES provider, subscriberSet, initCalls, phase, panicked,
          task, spans, nSpans, exported, logs

vars == <<provider, subscriberSet, initCalls, phase, panicked,
          task, spans, nSpans, exported, logs>>

\* ---------------------------------------------------------------- span API
\* tracer.start(name): a fresh span of pipeline p, opened by task t.
TracerStart(p, t, ph, ep) ==
    [NoSpan EXCEPT !.owner = t, !.pipeline = p, !.phase = ph, !.epoch = ep,
                   !.calls = << <<t, "start">> >>]

\* span.set_attribute: ignored once the span has ended.
SetAttribute(s, t, kv) ==
    [s EXCEPT !.calls = Append(@, <<t, "set_attribute " \o kv[1]>>),
              !.attrs = IF s.ended THEN @
                        ELSE {a \in @ : a[1] # kv[1]} \cup {kv}]

\* span.add_event
AddEvent(s, t, name) ==
    [s EXCEPT !.calls = Append(@, <<t, "add_event">>),
              !.events = IF s.ended THEN @ ELSE Append(@, name)]

\* span.set_status
SetStatus(s, t, st) ==
    [s EXCEPT !.calls = Append(@, <<t, "set_status">>),
              !.status = IF s.ended THEN @ ELSE st]

\* span.record_exception: an "exception" event carrying the message.
RecordException(s, t, e) ==
    [s EXCEPT !.calls = Append(@, <<t, "record_exception">>),
              !.events = IF s.ended THEN @ ELSE Append(@, "exception: " \o e.message)]

\* A span that ends twice: the end processing runs on every end and drop.
EnsureEndedUnguarded(s) ==
    [s EXCEPT !.ended = TRUE, !.endCount = @ + 1]

\* The end processing of a span runs at most once.
EnsureEnded(s) ==
    IF s.ended THEN s ELSE [s EXCEPT !.ended = TRUE, !.endCount = @ + 1]

\* span.end()
SpanEnd(s, t) ==
    [EnsureEnded(s) EXCEPT !.calls = Append(@, <<t, "end">>)]

\* A drop that leaks the span: it is never ended.
SpanDropLeak(s) ==
    [s EXCEPT !.dropped = TRUE]

\* The local `span` goes out of scope (return, or the future is dropped):
\* a span not yet ended is ended by its drop.
SpanDrop(s) ==
    [EnsureEnded(s) EXCEPT !.dropped = TRUE]

\* ---------------------------------------------------------------- globals
\* A lookup that installs a default pipeline when none was installed.
GlobalTracerDefaulting(prov) == IF prov = 0 THEN 1 ELSE prov

\* global::tracer("user-service"): the tracer of the installed provider,
\* the no-op one (0) when none is installed.
GlobalTracer(prov) == prov

\* A shutdown that leaves the provider installed.
ShutdownKeepsProvider(prov) == prov

\* global::shutdown_tracer_provider(): the no-op provider is installed.
ShutdownTracerProvider(prov) == 0

\* Every call is handed the first span slot.
AllocSpanShared(n) == 1

\* Each tracer.start creates a new span object.
AllocSpan(n) == n + 1

\* ---------------------------------------------------------------- service
\* A query that answers with a fixed user.
FetchUserFromDbFixed(user_id, fault) ==
    IF fault = NoFault THEN Ok(User("123")) ELSE Err(ServiceError(fault))

\* fetch_user_from_db: the user of that id, or the failure of the query.
FetchUserFromDb(user_id, fault) ==
    IF fault = NoFault THEN Ok(User(user_id)) ELSE Err(ServiceError(fault))

\* Lines 39-42: attributes and the start-of-fetch event.
BeforeFetch(s, t, user_id) ==
    AddEvent(
      SetAttribute(
        SetAttribute(s, t, KeyValue("user.id", user_id)),
        t, KeyValue("operation.type", "read")),
      t, "Fetching user from database")

\* An Ok arm that ends the span before it records the outcome.
OnOkEndFirst(s, t) ==
    SetStatus(
      SetAttribute(SpanEnd(s, t), t, KeyValue("user.found", "true")),
      t, StatusOk)

\* Lines 45-48: the Ok arm.
OnOk(s, t) ==
    SpanEnd(
      SetStatus(
        SetAttribute(s, t, KeyValue("user.found", "true")),
        t, StatusOk),
      t)

\* An Err arm that records a fixed description.
OnErrFixedDescription(s, t, e) ==
    SpanEnd(
      RecordException(SetStatus(s, t, StatusError("Failed to fetch user")), t, e),
      t)

\* Lines 51-55: the Err arm (the error log is LogError).
OnErr(s, t, e) ==
    SpanEnd(
      RecordException(SetStatus(s, t, StatusError(e.message)), t, e),
      t)

\* An Err arm that wraps the failure in a message of its own.
MatchResultWrapped(r) ==
    IF r.kind = "Ok" THEN Ok(r.user) ELSE Err(ServiceError("Failed to fetch user"))

\* Lines 49 and 56: the value of the match, Ok(user) or Err(e).
MatchResult(r) ==
    IF r.kind = "Ok" THEN Ok(r.user) ELSE Err(r.err)

\* Line 54: error!(error = %e.message, "Failed to fetch user")
LogError(lg, t, e) ==
    Append(lg, [task |-> t, level |-> "ERROR", error |-> e.message,
                message |-> "Failed to fetch user"])

\* The span is handed to the exporter of its pipeline when its end
\* processing runs while that pipeline is the installed one.
Export(ex, old, new, idx) ==
    IF new.endCount > old.endCount /\ new.pipeline # 0 /\ new.pipeline = provider
    THEN Append(ex, [span |-> idx, pipeline |-> new.pipeline])
    ELSE ex

\* ---------------------------------------------------------------- state
NoTask == [pc |-> "idle", user_id |-> "", span |-> 0, fault |-> NoFault,
           result |-> NoResult]

Init ==
    /\ provider = 0
    /\ subscriberSet = FALSE
    /\ initCalls = 0
    /\ phase = "Uninitialized"
    /\ panicked = FALSE
    /\ task = [t \in Tasks |-> NoTask]
    /\ spans = [i \in SpanIds |-> NoSpan]
    /\ nSpans = 0
    /\ exported = <<>>
    /\ logs = <<>>

\* init_tracer: the new provider replaces the installed one (line 54), then
\* the subscriber is made the global default (line 73); subscriber.init()
\* panics when a global default subscriber is already set, and the panic
\* unwinds out of main.
InitTracer ==
    /\ ~panicked
    /\ initCalls < MaxInit
    /\ provider' = initCalls + 1
    /\ initCalls' = initCalls + 1
    /\ phase' = "Initialized"
    /\ IF subscriberSet
       THEN panicked' = TRUE /\ UNCHANGED subscriberSet
       ELSE subscriberSet' = TRUE /\ UNCHANGED panicked
    /\ UNCHANGED <<task, spans, nSpans, exported, logs>>

\* shutdown()
Shutdown ==
    /\ ~panicked
    /\ provider' = ShutdownTracerProvider(provider)
    /\ phase' = "Shutdown"
    /\ UNCHANGED <<subscriberSet, initCalls, panicked, task, spans, nSpans,
                   exported, logs>>

\* get_user_by_id(user_id), up to the await of fetch_user_from_db.
CallStart(t, user_id) ==
    /\ ~panicked
    /\ task[t].pc = "idle"
    /\ LET idx == AllocSpan(nSpans)
           s0 == TracerStart(GlobalTracer(provider), t, phase, initCalls)
       IN /\ idx \in SpanIds
          /\ spans' = [spans EXCEPT ![idx] = BeforeFetch(s0, t, user_id)]
          /\ task' = [task EXCEPT ![t] = [NoTask EXCEPT !.pc = "awaiting",
                                                  !.user_id = user_id,
                                                  !.span = idx]]
    /\ nSpans' = nSpans + 1
    /\ UNCHANGED <<provider, subscriberSet, initCalls, phase, panicked,
                   exported, logs>>

\* get_user_by_id from the completion of the await to the return.
Resume(t, fault) ==
    /\ ~panicked
    /\ task[t].pc = "awaiting"
    /\ LET idx == task[t].span
           old == spans[idx]
           r == FetchUserFromDb(task[t].user_id, fault)
           new == IF r.kind = "Ok" THEN SpanDrop(OnOk(old, t))
                  ELSE SpanDrop(OnErr(old, t, r.err))
       IN /\ spans' = [spans EXCEPT ![idx] = new]
          /\ logs' = IF r.kind = "Ok" THEN logs ELSE LogError(logs, t, r.err)
          /\ exported' = Export(exported, old, new, idx)
          /\ task' = [task EXCEPT ![t].pc = "done", ![t].fault = fault,
                                  ![t].result = MatchResult(r)]
    /\ UNCHANGED <<provider, subscriberSet, initCalls, phase, panicked, nSpans>>

\* The executor drops the suspended future: its locals are dropped.
Cancel(t) ==
    /\ ~panicked
    /\ task[t].pc = "awaiting"
    /\ LET idx == task[t].span
           old == spans[idx]
           new == SpanDrop(old)
       IN /\ spans' = [spans EXCEPT ![idx] = new]
          /\ exported' = Export(exported, old, new, idx)
    /\ task' = [task EXCEPT ![t].pc = "cancelled"]
    /\ UNCHANGED <<provider, subscriberSet, initCalls, phase, panicked, nSpans,
                   logs>>

Next ==
    \/ InitTracer
    \/ Shutdown
    \/ \E t \in Tasks, u \in UserIds : CallStart(t, u)
    \/ \E t \in Tasks, f \in Faults : Resume(t, f)
    \/ \E t \in Tasks : Cancel(t)

Spec == Init /\ [][Next]_vars

\* ---------------------------------------------------------------- properties
SpansOf(t) == {i \in SpanIds : spans[i].owner = t}
SpanOf(t) == spans[task[t].span]
CallNames(s) == [k \in 1..Len(s.calls) |-> s.calls[k][2]]
Expected(t) ==
    IF task[t].fault = NoFault THEN Ok(User(task[t].user_id))
    ELSE Err(ServiceError(task[t].fault))
LogsOf(t) == {k \in 1..Len(logs) : logs[k].task = t}
ExportsOf(i) == {k \in 1..Len(exported) : exported[k].span = i}

\* C1: every call that has returned, with Ok or with Err, opened exactly one
\* span and that span was ended exactly once; no span is ever ended twice and
\* a call that has not started has opened none.
C1_OneSpanEndedOnce ==
    /\ \A i \in SpanIds : spans[i].endCount <= 1
    /\ \A t \in Tasks :
         /\ task[t].pc = "idle" => SpansOf(t) = {}
         /\ task[t].pc = "done" =>
              /\ Cardinality(SpansOf(t)) = 1
              /\ SpanOf(t).ended
              /\ SpanOf(t).endCount = 1

C1_Witness ==
    \E t1, t2 \in Tasks :
       /\ task[t1].pc = "done" /\ task[t1].result.kind = "Ok"
       /\ task[t2].pc = "done" /\ task[t2].result.kind = "Err"

\* C2: a second init_tracer call completes without error, and every span
\* started while a provider is installed comes from the provider installed
\* last and is exported through that pipeline only.
C2_SecondInitLastWriteWins ==
    /\ initCalls >= 2 => ~panicked
    /\ \A i \in SpanIds :
         (spans[i].owner # 0 /\ spans[i].phase = "Initialized") =>
            /\ spans[i].pipeline = spans[i].epoch
            /\ \A k \in ExportsOf(i) : exported[k].pipeline = spans[i].epoch

\* C3: a call cancelled while it awaits fetch_user_from_db leaves its span
\* ended, exactly once.
C3_CancelEndsSpan ==
    \A t \in Tasks :
       task[t].pc = "cancelled" =>
          /\ Cardinality(SpansOf(t)) = 1
          /\ SpanOf(t).ended
          /\ SpanOf(t).endCount = 1

C3_Witness ==
    \E t \in Tasks : task[t].pc = "cancelled" /\ SpanOf(t).dropped

\* C4: the span of a returned call has status Ok and user.found = true when
\* the wrapped operation returned Ok, and status Error with the description
\* e.message and no user.found attribute when it returned Err(e).
C4_StatusReflectsOutcome ==
    \A t \in Tasks :
       task[t].pc = "done" =>
          IF task[t].fault = NoFault
          THEN /\ SpanOf(t).status = StatusOk
               /\ KeyValue("user.found", "true") \in SpanOf(t).attrs
          ELSE /\ SpanOf(t).status = StatusError(task[t].fault)
               /\ \A a \in SpanOf(t).attrs : a[1] # "user.found"

C4_Witness ==
    \E t1, t2 \in Tasks :
       /\ task[t1].pc = "done" /\ task[t1].fault = "not found"
       /\ SpanOf(t1).status.code = "Error"
       /\ task[t2].pc = "done" /\ task[t2].fault = NoFault
       /\ SpanOf(t2).status.code = "Ok"

\* C5: a failure e of the wrapped operation is returned as Err(e) with the
\* same message and logged by exactly one error line; a success is returned
\* as Ok and logs nothing; a call that has not returned has logged nothing.
C5_FailurePropagatedAndLoggedOnce ==
    \A t \in Tasks :
       /\ task[t].pc # "done" => LogsOf(t) = {}
       /\ task[t].pc = "done" =>
            IF task[t].fault = NoFault
            THEN /\ task[t].result.kind = "Ok"
                 /\ LogsOf(t) = {}
            ELSE /\ task[t].result = Err(ServiceError(task[t].fault))
                 /\ Cardinality(LogsOf(t)) = 1
                 /\ \A k \in LogsOf(t) : logs[k].error = task[t].fault

C5_Witness ==
    \E t \in Tasks :
       /\ task[t].pc = "done" /\ task[t].fault = "not found"
       /\ task[t].result.err.message = "not found"
       /\ LogsOf(t) # {}

\* C6: a call started before init_tracer ever ran gets a span of the no-op
\* provider, exports nothing, and returns the result of the wrapped
\* operation.
C6_CallBeforeBootstrap ==
    \A t \in Tasks :
       (task[t].pc # "idle" /\ SpanOf(t).epoch = 0) =>
          /\ SpanOf(t).pipeline = 0
          /\ ExportsOf(task[t].span) = {}
          /\ task[t].pc = "done" => task[t].result = Expected(t)

C6_Witness ==
    \E t1, t2 \in Tasks :
       /\ task[t1].pc = "done" /\ SpanOf(t1).phase = "Uninitialized"
       /\ task[t1].result.kind = "Ok"
       /\ task[t2].pc = "done" /\ SpanOf(t2).phase = "Uninitialized"
       /\ task[t2].result.kind = "Err"

\* C7: a call started after init_tracer followed by shutdown has a span that
\* is never exported, and it returns the result of the wrapped operation.
C7_NoExportAfterShutdown ==
    \A t \in Tasks :
       (task[t].pc # "idle" /\ SpanOf(t).phase = "Shutdown" /\ SpanOf(t).epoch >= 1) =>
          /\ ExportsOf(task[t].span) = {}
          /\ task[t].pc = "done" => task[t].result = Expected(t)

C7_Witness ==
    \E t \in Tasks :
       /\ task[t].pc = "done" /\ SpanOf(t).ended
       /\ SpanOf(t).phase = "Shutdown" /\ SpanOf(t).epoch >= 1

\* C8: when the wrapped operation succeeds, the call for identifier s returns
\* Ok(user) with user.id = s, the user the wrapped operation produced.
C8_ReturnsUserOfThatId ==
    \A t \in Tasks :
       (task[t].pc = "done" /\ task[t].fault = NoFault) =>
          /\ task[t].result.kind = "Ok"
          /\ task[t].result.user.id = task[t].user_id
          /\ task[t].result.user = User(task[t].user_id)

C8_Witness ==
    \E t1, t2 \in Tasks :
       /\ task[t1].pc = "done" /\ task[t1].user_id = "123"
       /\ task[t1].result.user.id = "123"
       /\ task[t2].pc = "done" /\ task[t2].user_id = "456"
       /\ task[t2].result.user.id = "456"

\* C9: concurrent calls own distinct spans; the span of a call carries only
\* that call's user.id, status and calls, and each call opens one span and,
\* once returned, has ended it once.
C9_EachCallOwnsItsSpan ==
    \A t \in Tasks :
       task[t].pc # "idle" =>
          /\ SpansOf(t) = {task[t].span}
          /\ \A u \in Tasks \ {t} : task[u].pc # "idle" => task[u].span # task[t].span
          /\ \A k \in 1..Len(SpanOf(t).calls) : SpanOf(t).calls[k][1] = t
          /\ \A a \in SpanOf(t).attrs : a[1] = "user.id" => a[2] = task[t].user_id
          /\ KeyValue("user.id", task[t].user_id) \in SpanOf(t).attrs
          /\ task[t].pc = "awaiting" => ~SpanOf(t).ended /\ SpanOf(t).status = StatusUnset
          /\ task[t].pc = "done" =>
               /\ SpanOf(t).endCount = 1
               /\ SpanOf(t).status.code = IF task[t].fault = NoFault THEN "Ok" ELSE "Error"
               /\ SpanOf(t).status.description =
                     IF task[t].fault = NoFault THEN "" ELSE task[t].fault

C9_Witness ==
    \E t1, t2 \in Tasks :
       /\ task[t1].pc = "done" /\ task[t2].pc = "awaiting"
       /\ task[t1].span > task[t2].span
       /\ task[t1].user_id # task[t2].user_id
       /\ task[t1].fault # NoFault

\* C10: the calls on a span are, in this order, start, user.id,
\* operation.type = "read", the start-of-fetch event; nothing more before the
\* wrapped operation completes; then the status is set, and the end is the
\* last call made on the span.
C10_SpanCallOrder ==
    \A t \in Tasks :
       task[t].pc # "idle" =>
          LET n == CallNames(SpanOf(t)) IN
          /\ Len(n) >= 4
          /\ n[1] = "start"
          /\ n[2] = "set_attribute user.id"
          /\ n[3] = "set_attribute operation.type"
          /\ n[4] = "add_event"
          /\ KeyValue("operation.type", "read") \in SpanOf(t).attrs
          /\ SpanOf(t).events[1] = "Fetching user from database"
          /\ task[t].pc \in {"awaiting", "cancelled"} => Len(n) = 4
          /\ task[t].pc = "done" =>
               /\ \E i \in 5..Len(n) : n[i] = "set_status"
               /\ \A i \in 1..Len(n) : n[i] = "end" <=> i = Len(n)
               /\ \A i \in 1..Len(n) : n[i] = "set_status" => i < Len(n)

C10_Witness ==
    \E t1, t2 \in Tasks :
       /\ task[t1].pc = "done" /\ task[t1].fault = NoFault
       /\ task[t2].pc = "done" /\ task[t2].fault # NoFault
       /\ Len(SpanOf(t1).calls) = 7 /\ Len(SpanOf(t2).calls) = 7

====
